---- MODULE Spec2Model ----
(***************************************************************************)
(* twisted.python.threadpool.ThreadPool on top of twisted.threads.Team.    *)
(*                                                                         *)
(* ThreadPool (src/twisted/python/threadpool.py) is modelled from its      *)
(* code.  Team and ThreadWorker (twisted.threads) are imported by that     *)
(* file; their behaviour is modelled from the design document (sections    *)
(* 4.2 and 4.3): one coordinator thread that handles its inbox in arrival  *)
(* order, and workers that run one item at a time.                         *)
(*                                                                         *)
(* ThreadPool is a classic class (line 29, "class ThreadPool:"), so the    *)
(* properties workers/working are read through the class only while the    *)
(* instance dictionary has no entry of that name: the assignment           *)
(* self.working = [] (line 123) and the augmented assignment               *)
(* self.workers += 1 (line 178) store into the instance dictionary and     *)
(* shadow the property from then on.                                       *)
(***************************************************************************)
EXTENDS Integers, Sequences, FiniteSets, TLC

\* ------------------------------------------------------------- bounds
\* largest minthreads / maxthreads value a caller passes
MaxThreads == 1
\* the same, in the specification without submissions (LifecycleSpec)
MaxLifecycleThreads == 2
\* number of callInThread / callInThreadWithCallback calls
MaxTasks == 1
\* number of start / stop / adjustPoolsize calls of the controlling thread
MaxOps == 2
\* the same, in the specification without submissions (LifecycleSpec)
MaxLifecycleOps == 3

\* largest maxthreads of a pool that is started once and given work (WorkSpec)
MaxWorkThreads == 2
\* number of submissions to that pool
MaxWorkTasks == 2

\* largest minthreads / maxthreads of a pool that is resized (ResizeSpec)
MaxResizeThreads == 2
\* number of callInThread calls on that pool
MaxResizeTasks == 1
\* number of start / adjustPoolsize calls on that pool
MaxResizeOps == 3

\* Worker slots: one more than the largest max, so that a pool that
\* exceeded max would have a slot to do it in.
Larger(a, b) == IF a > b THEN a ELSE b

Slots ==
    1..(Larger(Larger(MaxThreads, MaxLifecycleThreads),
               Larger(MaxWorkThreads, MaxResizeThreads)) + 1)

\* twisted.python.failure.Failure(): the result handed to onResult when the
\* task raised.  Tasks return their own (positive) number.
Failure == 0

\* "no such object" (Python None) for a worker reference
None == 0

VARIABLES
    \* --- ThreadPool attributes
    min, max, joined, started,
    workersDict,   \* instance-dictionary entry "workers": <<>> if absent, <<n>> if set
    \* --- the controlling thread (the one that calls start/stop/adjustPoolsize)
    pc,            \* "idle", or the line of adjustPoolsize/stop it is at
    neededSize,    \* local of _startSomeWorkers
    err,           \* exception raised by the controlling thread's last call
    ops,           \* calls made by the controlling thread, in order
    \* --- submitted tasks, by number (history of each task)
    tasks,
    \* --- Team / coordinator
    inbox,         \* coordinator's inbox
    coord,         \* "running", "quitting", "exited"
    wk,            \* worker registry: slot -> [st, task]
    pending,       \* backlog of task numbers, oldest first
    toShrink,      \* busy workers still to be stopped when they finish
    exiting        \* threads that took the stop sentinel and have not ended yet

poolVars == <<min, max, joined, started, workersDict>>
callerVars == <<pc, neededSize, err, ops>>
teamVars == <<inbox, coord, wk, pending, toShrink, exiting>>
vars == <<min, max, joined, started, workersDict, pc, neededSize, err, ops,
          tasks, inbox, coord, wk, pending, toShrink, exiting>>

\* ------------------------------------------------------------- helpers
Minimum(S) == CHOOSE x \in S : \A y \in S : x <= y

Smaller(a, b) == IF a < b THEN a ELSE b

\* the one element of a singleton set
The(S) == CHOOSE x \in S : TRUE

\* The ambient context of a thread is a stack of contexts, the current
\* one last.  A thread that installed nothing has the default context only.
DefaultContext == "default"
NoContext == "none"
FreshContexts == <<DefaultContext>>

\* currentContext().contexts[-1] (line 261)
currentContext(contexts) == contexts[Len(contexts)]

\* context.call(ctx, func): ctx is installed while func runs (during) and
\* the prior stack is back when the call has ended, by return or by raise
\* (after).
contextCall(contexts, ctx) ==
    [during |-> Append(contexts, ctx),
     after |-> SubSeq(Append(contexts, ctx), 1, Len(contexts))]

FreeWorker == [st |-> "free", task |-> 0, contexts |-> FreshContexts]

\* The coordinator-owned registry as one value, so that a handler that
\* loops (grow, shrink) can be written as a function of it.
Registry == [wk |-> wk, pending |-> pending, toShrink |-> toShrink,
             exiting |-> exiting, tasks |-> tasks]

IdleSet(r) == {w \in Slots : r.wk[w].st = "idle"}

\* A worker is Busy in the registry from the hand-off of an item until the
\* coordinator has handled its completion report.
BusySet(r) == {w \in Slots : r.wk[w].st \in {"busy", "waiting"}}

\* Team.statistics(): called synchronously, also from the coordinator
\* itself (line 135), so it reads the registry directly.
statistics(r) ==
    [idleWorkerCount |-> Cardinality(IdleSet(r)),
     busyWorkerCount |-> Cardinality(BusySet(r)),
     backloggedWorkCount |-> Len(r.pending)]

\* ThreadPool.workers, the property (lines 150-156)
workersProperty(r) ==
    statistics(r).idleWorkerCount + statistics(r).busyWorkerCount

\* self.workers as an attribute read: the instance dictionary first
\* (classic class), the property otherwise.
workers == IF workersDict # <<>> THEN workersDict[1] ELSE workersProperty(Registry)

\* self.working: the list stored by __init__ (line 123), never appended to.
working == <<>>

\* NotAQueue.qsize (lines 114-116)
qsize == statistics(Registry).backloggedWorkCount

\* ------------------------------------------------------------- Team.post
\* Hand a message to the coordinator's inbox.  A coordinator that has
\* exited has no inbox any more.
post(box, m) == IF coord = "exited" THEN box ELSE Append(box, m)

Dispatch(t) == [type |-> "Dispatch", arg |-> t]
Grow(n) == [type |-> "Grow", arg |-> n]
Shrink(n) == [type |-> "Shrink", arg |-> n]
Quit == [type |-> "Quit", arg |-> 0]
WorkerIdle(w) == [type |-> "WorkerIdle", arg |-> w]

\* ------------------------------------------------------------- Init
\* A task as submitted: whether it has an onResult, and its history: whether
\* the pool was started when it was submitted, how often it was handed to
\* the team, whether it waited in the backlog, how often it was handed to a
\* worker and run, how it ended, and the calls of its onResult; the context
\* captured for it (ctx), the current context of its submitter (at) and the
\* current context its function ran under (seen).
NewTask(onResult) ==
    [onResult |-> onResult, whenStarted |-> started, posted |-> 0,
     queued |-> FALSE, handed |-> 0, ran |-> 0, outcome |-> "none", cb |-> <<>>,
     ctx |-> NoContext, at |-> NoContext, seen |-> NoContext]

\* ThreadPool.__init__ (lines 105-147) with valid (minthreads, maxthreads)
\* up to n
InitWith(n) ==
    /\ min \in 0..n
    /\ max \in 0..n
    /\ min <= max
    /\ joined = FALSE
    /\ started = FALSE
    /\ workersDict = <<>>
    /\ pc = "idle"
    /\ neededSize = 0
    /\ err = "none"
    /\ ops = <<>>
    /\ tasks = <<>>
    /\ inbox = <<>>
    /\ coord = "running"
    /\ wk = [w \in Slots |-> FreeWorker]
    /\ pending = <<>>
    /\ toShrink = 0
    /\ exiting = 0

Init == InitWith(MaxThreads)

LifecycleInit == InitWith(MaxLifecycleThreads)

WorkInit == InitWith(MaxWorkThreads)

ResizeInit == InitWith(MaxResizeThreads)

\* ============================================================ ThreadPool
\* An optional argument: <<>> is None (omitted), <<v>> is the value v.
MinArgs(n) == {<<>>} \cup {<<v>> : v \in (0 - 1)..n}
MaxArgs(n) == {<<>>} \cup {<<v>> : v \in 0..n}

\* the values adjustPoolsize works with after lines 284-287
minthreadsOf(mi) == IF mi = <<>> THEN min ELSE mi[1]
maxthreadsOf(ma) == IF ma = <<>> THEN max ELSE ma[1]

\* adjustPoolsize that assigns min and max before it checks them
adjustPoolsizeEntry_assignsFirst(mi, ma, isStarted) ==
    /\ min' = minthreadsOf(mi)
    /\ max' = maxthreadsOf(ma)
    /\ IF minthreadsOf(mi) < 0 \/ minthreadsOf(mi) > maxthreadsOf(ma)
       THEN err' = "AssertionError" /\ pc' = "idle"
       ELSE err' = "none" /\ pc' = IF isStarted THEN "l298" ELSE "idle"

\* adjustPoolsize without the assertion of line 290
adjustPoolsizeEntry_noOrderAssert(mi, ma, isStarted) ==
    IF minthreadsOf(mi) < 0
    THEN /\ err' = "AssertionError"
         /\ pc' = "idle"
         /\ UNCHANGED <<min, max>>
    ELSE /\ err' = "none"
         /\ min' = minthreadsOf(mi)
         /\ max' = maxthreadsOf(ma)
         /\ pc' = IF isStarted THEN "l298" ELSE "idle"

\* adjustPoolsize, lines 283-295: defaults, the two assertions, the
\* assignment of min and max, and the return when the pool is not started.
\* isStarted is self.started as line 294 reads it.
adjustPoolsizeEntry(mi, ma, isStarted) ==
    LET minthreads == minthreadsOf(mi)
        maxthreads == maxthreadsOf(ma)
    IN  IF minthreads < 0 \/ minthreads > maxthreads
        THEN /\ err' = "AssertionError"
             /\ pc' = "idle"
             /\ UNCHANGED <<min, max>>
        ELSE /\ err' = "none"
             /\ min' = minthreads
             /\ max' = maxthreads
             /\ pc' = IF isStarted THEN "l298" ELSE "idle"

\* start (lines 167-174): the flags, then adjustPoolsize() up to its first
\* read of the worker count.
start ==
    /\ joined' = FALSE
    /\ started' = TRUE
    /\ adjustPoolsizeEntry(<<>>, <<>>, TRUE)
    /\ UNCHANGED <<workersDict, neededSize, tasks, teamVars>>

\* start() called by the controlling thread, which makes at most n calls
Start(n) ==
    /\ pc = "idle"
    /\ Len(ops) < n
    /\ ops' = Append(ops, "start")
    /\ start

\* adjustPoolsize(minthreads, maxthreads) called by the controlling thread,
\* which makes at most n calls, with values up to most
AdjustPoolsize(n, most) ==
    /\ pc = "idle"
    /\ Len(ops) < n
    /\ ops' = Append(ops, "adjust")
    /\ \E mi \in MinArgs(most), ma \in MaxArgs(most) :
            adjustPoolsizeEntry(mi, ma, started)
    /\ UNCHANGED <<joined, started, workersDict, neededSize, tasks, teamVars>>

\* line 298: if self.workers > self.max
L298 ==
    /\ pc = "l298"
    /\ pc' = IF workers > max THEN "l299" ELSE "l301"
    /\ UNCHANGED <<poolVars, neededSize, err, ops, tasks, teamVars>>

\* line 299: self._team.shrink(self.workers - self.max), the count read anew
shrinkAmount == workers - max

L299 ==
    /\ pc = "l299"
    /\ inbox' = post(inbox, Shrink(shrinkAmount))
    /\ pc' = "l301"
    /\ UNCHANGED <<poolVars, neededSize, err, ops, tasks,
                   coord, wk, pending, toShrink, exiting>>

\* line 301: if self.workers < self.min
L301 ==
    /\ pc = "l301"
    /\ pc' = IF workers < min THEN "l302" ELSE "l210"
    /\ UNCHANGED <<poolVars, neededSize, err, ops, tasks, teamVars>>

\* growth up to max instead of min
growAmount_toMax == max - workers

\* line 302: self._team.grow(self.min - self.workers), the count read anew
growAmount == min - workers

L302 ==
    /\ pc = "l302"
    /\ inbox' = post(inbox, Grow(growAmount))
    /\ pc' = "l210"
    /\ UNCHANGED <<poolVars, neededSize, err, ops, tasks,
                   coord, wk, pending, toShrink, exiting>>

\* _startSomeWorkers, line 210: neededSize = self.q.qsize() + len(self.working)
L210 ==
    /\ pc = "l210"
    /\ neededSize' = qsize + Len(working)
    /\ pc' = "l212"
    /\ UNCHANGED <<poolVars, err, ops, tasks, teamVars>>

\* _startSomeWorkers, line 212: while self.workers < min(self.max, neededSize)
L212 ==
    /\ pc = "l212"
    /\ IF workers < Smaller(max, neededSize)
       THEN pc' = "l178" /\ UNCHANGED neededSize
       ELSE pc' = "idle" /\ neededSize' = 0
    /\ UNCHANGED <<poolVars, err, ops, tasks, teamVars>>

\* startAWorker (lines 177-182): self.workers += 1 stores the incremented
\* count in the instance dictionary; line 179 then reads self._worker,
\* which no class or instance defines, and the AttributeError leaves
\* _startSomeWorkers, adjustPoolsize and start.
startAWorker ==
    /\ workersDict' = <<workers + 1>>
    /\ err' = "AttributeError"
    /\ pc' = "idle"
    /\ neededSize' = 0

L178 ==
    /\ pc = "l178"
    /\ startAWorker
    /\ UNCHANGED <<min, max, joined, started, ops, tasks, teamVars>>

\* stop that sets the flags and never calls self._team.quit()
stop_noQuit ==
    /\ joined' = TRUE
    /\ started' = FALSE
    /\ err' = "none"
    /\ inbox' = inbox
    /\ pc' = "idle"

\* stop that refuses a pool that is already joined
stop_raisesWhenJoined ==
    /\ joined' = TRUE
    /\ started' = FALSE
    /\ err' = IF joined THEN "AlreadyQuit" ELSE "none"
    /\ inbox' = IF joined THEN inbox ELSE post(inbox, Quit)
    /\ pc' = IF joined THEN "idle" ELSE "l280"

\* stop that asks the team to quit and does not wait for it
stop_returnsAtOnce ==
    /\ joined' = TRUE
    /\ started' = FALSE
    /\ err' = "none"
    /\ inbox' = post(inbox, Quit)
    /\ pc' = "idle"

\* stop (lines 274-280): the flags, then self._team.quit(), in which the
\* controlling thread stays until the team has quit.
stop ==
    /\ joined' = TRUE
    /\ started' = FALSE
    /\ err' = "none"
    /\ inbox' = post(inbox, Quit)
    /\ pc' = "l280"

\* stop() called by the controlling thread, which makes at most n calls
Stop(n) ==
    /\ pc = "idle"
    /\ Len(ops) < n
    /\ ops' = Append(ops, "stop")
    /\ stop
    /\ UNCHANGED <<min, max, workersDict, neededSize, tasks,
                   coord, wk, pending, toShrink, exiting>>

\* Team.quit() returns: every worker has exited and the coordinator with them.
StopReturn ==
    /\ pc = "l280"
    /\ coord = "exited"
    /\ pc' = "idle"
    /\ UNCHANGED <<poolVars, neededSize, err, ops, tasks, teamVars>>

\* callInThreadWithCallback without the test of self.joined
callInThreadWithCallback_noJoinedCheck(hasOnResult, contexts) ==
    /\ tasks' = Append(tasks, [NewTask(hasOnResult) EXCEPT
                                  !.posted = 1,
                                  !.ctx = currentContext(contexts),
                                  !.at = currentContext(contexts)])
    /\ inbox' = post(inbox, Dispatch(Len(tasks) + 1))

\* callInThreadWithCallback that hands the closure to the team twice
callInThreadWithCallback_postsTwice(hasOnResult, contexts) ==
    IF joined
    THEN /\ tasks' = Append(tasks, NewTask(hasOnResult))
         /\ UNCHANGED inbox
    ELSE /\ tasks' = Append(tasks, [NewTask(hasOnResult) EXCEPT
                                       !.posted = 2,
                                       !.ctx = currentContext(contexts),
                                       !.at = currentContext(contexts)])
         /\ inbox' = post(post(inbox, Dispatch(Len(tasks) + 1)), Dispatch(Len(tasks) + 1))

\* callInThreadWithCallback (lines 229-271), on any thread; callInThread
\* (line 226) is the call with onResult = None (hasOnResult = FALSE).
\* Lines 259-260 return when joined; otherwise line 261 captures the
\* current context of the calling thread, whose stack is contexts, and the
\* closure inThread is handed to Team.do once.
callInThreadWithCallback(hasOnResult, contexts) ==
    LET t == Len(tasks) + 1
        ctx == currentContext(contexts)
    IN  IF joined
        THEN /\ tasks' = Append(tasks, NewTask(hasOnResult))
             /\ UNCHANGED inbox
        ELSE /\ tasks' = Append(tasks, [NewTask(hasOnResult) EXCEPT
                                           !.posted = 1,
                                           !.ctx = ctx,
                                           !.at = currentContext(contexts)])
             /\ inbox' = post(inbox, Dispatch(t))

\* a submission by a thread that installed no context
CallInThread ==
    /\ Len(tasks) < MaxTasks
    /\ \E hasOnResult \in BOOLEAN : callInThreadWithCallback(hasOnResult, FreshContexts)
    /\ UNCHANGED <<poolVars, callerVars, coord, wk, pending, toShrink, exiting>>

\* The stacks of the threads that submit in WorkSpec: a thread that
\* installed nothing, and one inside a context.call of its own.
SubmitterContexts == {FreshContexts, <<DefaultContext, "request">>}

\* a submission by any of these threads
WorkCallInThread ==
    /\ Len(tasks) < MaxWorkTasks
    /\ \E hasOnResult \in BOOLEAN, contexts \in SubmitterContexts :
           callInThreadWithCallback(hasOnResult, contexts)
    /\ UNCHANGED <<poolVars, callerVars, coord, wk, pending, toShrink, exiting>>

\* callInThread (line 226): a submission without onResult, by a thread
\* that installed no context
ResizeCallInThread ==
    /\ Len(tasks) < MaxResizeTasks
    /\ callInThreadWithCallback(FALSE, FreshContexts)
    /\ UNCHANGED <<poolVars, callerVars, coord, wk, pending, toShrink, exiting>>

\* How a task's run is remembered: without an onResult the result of the
\* task is dropped at line 270 and nothing tells a return from a raise.
Outcome(hasOnResult, raised) ==
    IF ~hasOnResult THEN "done" ELSE IF raised THEN "raised" ELSE "returned"

\* inThread that calls onResult inside the except clause and again after it
inThread_callbackInExcept(ts, t, raised, contexts) ==
    LET ok == ~raised
        result == IF raised THEN Failure ELSE t
        calls == IF raised THEN << <<ok, result>>, <<ok, result>> >> ELSE << <<ok, result>> >>
    IN  [ts EXCEPT ![t].ran = @ + 1,
                   ![t].outcome = Outcome(ts[t].onResult, raised),
                   ![t].seen = currentContext(contextCall(contexts, ts[t].ctx).during),
                   ![t].cb = IF ts[t].onResult THEN @ \o calls ELSE @]

\* inThread that calls func directly, without context.call(ctx, ...)
inThread_noContextCall(ts, t, raised, contexts) ==
    LET ok == ~raised
        result == IF raised THEN Failure ELSE t
    IN  [ts EXCEPT ![t].ran = @ + 1,
                   ![t].outcome = Outcome(ts[t].onResult, raised),
                   ![t].seen = currentContext(contexts),
                   ![t].cb = IF ts[t].onResult THEN Append(@, <<ok, result>>) ELSE @]

\* inThread (lines 263-271), run by a worker whose stack is contexts: func
\* runs under context.call(ctx, ...) and returns the task's number or
\* raises; onResult, if given, is called with (ok, result).
inThread(ts, t, raised, contexts) ==
    LET ok == ~raised
        result == IF raised THEN Failure ELSE t
    IN  [ts EXCEPT ![t].ran = @ + 1,
                   ![t].outcome = Outcome(ts[t].onResult, raised),
                   ![t].seen = currentContext(contextCall(contexts, ts[t].ctx).during),
                   ![t].cb = IF ts[t].onResult THEN Append(@, <<ok, result>>) ELSE @]

\* ============================================================ Team
\* workerCreator (lines 125-131): a new ThreadWorker, here the lowest free slot.
workerCreator(r) ==
    LET free == {w \in Slots : r.wk[w].st = "free"}
    IN  IF free = {} THEN None ELSE Minimum(free)

\* limitedWorkerCreator without the comparison against self.max
limitedWorkerCreator_noLimit(r, mx) == workerCreator(r)

\* limitedWorkerCreator that refuses only above self.max (> for >=)
limitedWorkerCreator_aboveMax(r, mx) ==
    IF statistics(r).busyWorkerCount + statistics(r).idleWorkerCount > mx
    THEN None
    ELSE workerCreator(r)

\* limitedWorkerCreator that refuses one worker early
limitedWorkerCreator_oneShort(r, mx) ==
    IF statistics(r).busyWorkerCount + statistics(r).idleWorkerCount + 1 >= mx
    THEN None
    ELSE workerCreator(r)

\* limitedWorkerCreator (lines 133-138), mx is self.max
limitedWorkerCreator(r, mx) ==
    IF statistics(r).busyWorkerCount + statistics(r).idleWorkerCount >= mx
    THEN None
    ELSE workerCreator(r)

\* The coordinator hands item t to worker w.
handTo(r, w, t) ==
    [r EXCEPT !.wk[w] = [@ EXCEPT !.st = "busy", !.task = t],
              !.tasks[t].handed = @ + 1]

\* Dispatch(item): an idle worker, else a new worker, else the backlog.
coordinateThisTask(r, t, mx) ==
    IF IdleSet(r) # {}
    THEN handTo(r, Minimum(IdleSet(r)), t)
    ELSE LET w == limitedWorkerCreator(r, mx)
         IN  IF w = None
             THEN [r EXCEPT !.pending = Append(@, t), !.tasks[t].queued = TRUE]
             ELSE handTo(r, w, t)

\* A worker is (again) available: it takes the oldest backlogged item, or
\* is stopped if a shrink is still owed, or is marked Idle.
recycleWorker(r, w, mx) ==
    LET r1 == [r EXCEPT !.wk[w] = [@ EXCEPT !.st = "idle", !.task = 0]]
    IN  IF r1.pending # <<>>
        THEN coordinateThisTask([r1 EXCEPT !.pending = Tail(@)], Head(r1.pending), mx)
        ELSE IF r1.toShrink > 0
        THEN [r1 EXCEPT !.toShrink = @ - 1, !.wk[w] = FreeWorker, !.exiting = @ + 1]
        ELSE r1

\* Grow(n): up to n new workers, as far as createWorker gives them.  The
\* new worker w and the registry r1 after it is made available are bound
\* variables, so that each is computed once per round.
RECURSIVE growN(_, _, _)
growN(r, n, mx) ==
    IF n <= 0 THEN r
    ELSE The({ IF w = None THEN r
               ELSE The({ growN(r1, n - 1, mx) : r1 \in {recycleWorker(r, w, mx)} })
               : w \in {limitedWorkerCreator(r, mx)} })

\* Shrink(n): stop n workers, idle ones now, busy ones when they finish.
RECURSIVE quitIdlers(_, _)
quitIdlers(r, n) ==
    IF n <= 0 THEN r
    ELSE IF IdleSet(r) # {}
    THEN quitIdlers([r EXCEPT !.wk[Minimum(IdleSet(r))] = FreeWorker,
                              !.exiting = @ + 1], n - 1)
    ELSE quitIdlers([r EXCEPT !.toShrink = @ + 1], n - 1)

\* Quit: the stop sentinel goes to every worker's inbox.  The workers that
\* wait on their inbox (idle, or done and not yet recycled) take it now; a
\* worker that runs an item takes it when the item is done.
quitAll(r) ==
    LET waiting == {w \in Slots : r.wk[w].st \in {"idle", "waiting"}}
    IN  [r EXCEPT !.wk = [w \in Slots |-> IF w \in waiting THEN FreeWorker ELSE r.wk[w]],
                  !.exiting = @ + Cardinality(waiting)]

handle(r, m, mx) ==
    CASE m.type = "Dispatch" -> coordinateThisTask(r, m.arg, mx)
      [] m.type = "Grow" -> growN(r, m.arg, mx)
      [] m.type = "Shrink" -> quitIdlers(r, m.arg)
      [] m.type = "WorkerIdle" -> recycleWorker(r, m.arg, mx)
      [] m.type = "Quit" -> quitAll(r)

\* The coordinator takes the oldest message of its inbox and handles it.
CoordStep ==
    /\ coord = "running"
    /\ inbox # <<>>
    /\ \E m \in {Head(inbox)} : \E r \in {handle(Registry, m, max)} :
           /\ wk' = r.wk
           /\ pending' = r.pending
           /\ toShrink' = r.toShrink
           /\ exiting' = r.exiting
           /\ tasks' = r.tasks
           /\ coord' = IF m.type = "Quit" THEN "quitting" ELSE coord
    /\ inbox' = Tail(inbox)
    /\ UNCHANGED <<poolVars, callerVars>>

\* After Quit the coordinator waits for every worker thread to end, then
\* ends itself; its inbox and backlog go with it.
CoordExit ==
    /\ coord = "quitting"
    /\ BusySet(Registry) = {}
    /\ exiting = 0
    /\ coord' = "exited"
    /\ inbox' = <<>>
    /\ pending' = <<>>
    /\ toShrink' = 0
    /\ UNCHANGED <<poolVars, callerVars, tasks, wk, exiting>>

\* A worker runs the item it was handed (inThread) and reports to the
\* coordinator; if the stop sentinel is already behind the item in its
\* inbox, it takes the sentinel instead.
WorkerRun(w) ==
    /\ wk[w].st = "busy"
    /\ \E raised \in BOOLEAN :
           tasks' = inThread(tasks, wk[w].task, raised, wk[w].contexts)
    /\ IF coord = "running"
       THEN /\ wk' = [wk EXCEPT ![w].st = "waiting",
                                ![w].contexts =
                                    contextCall(@, tasks[wk[w].task].ctx).after]
            /\ inbox' = Append(inbox, WorkerIdle(w))
            /\ UNCHANGED exiting
       ELSE /\ wk' = [wk EXCEPT ![w] = FreeWorker]
            /\ exiting' = exiting + 1
            /\ UNCHANGED inbox
    /\ UNCHANGED <<poolVars, callerVars, coord, pending, toShrink>>

\* A worker thread that took the stop sentinel ends.
WorkerExit ==
    /\ exiting > 0
    /\ exiting' = exiting - 1
    /\ UNCHANGED <<poolVars, callerVars, tasks, inbox, coord, wk, pending, toShrink>>

\* ============================================================ specification
ControllerStep == L298 \/ L299 \/ L301 \/ L302 \/ L210 \/ L212 \/ L178 \/ StopReturn

Next ==
    \/ Start(MaxOps)
    \/ Stop(MaxOps)
    \/ StopReturn
    \/ AdjustPoolsize(MaxOps, MaxThreads)
    \/ L298
    \/ L299
    \/ L301
    \/ L302
    \/ L210
    \/ L212
    \/ L178
    \/ CallInThread
    \/ CoordStep
    \/ CoordExit
    \/ \E w \in Slots : WorkerRun(w)
    \/ WorkerExit

Spec == Init /\ [][Next]_vars

\* The threads keep running: the coordinator, the workers, and the
\* controlling thread inside a call.  New calls are up to the callers.
FairSpec ==
    /\ Spec
    /\ WF_vars(ControllerStep)
    /\ WF_vars(CoordStep)
    /\ WF_vars(CoordExit)
    /\ WF_vars(\E w \in Slots : WorkerRun(w))
    /\ WF_vars(WorkerExit)

\* The pool without submissions: the controlling thread, the coordinator
\* and the worker threads it starts and stops.
LifecycleSteps ==
    \/ StopReturn
    \/ L298
    \/ L299
    \/ L301
    \/ L302
    \/ L210
    \/ L212
    \/ CoordStep
    \/ CoordExit
    \/ WorkerExit

LifecycleNext ==
    \/ Start(MaxLifecycleOps)
    \/ Stop(MaxLifecycleOps)
    \/ AdjustPoolsize(MaxLifecycleOps, MaxLifecycleThreads)
    \/ LifecycleSteps

LifecycleSpec == LifecycleInit /\ [][LifecycleNext]_vars

\* The same pool with its threads kept running.
FairLifecycleSpec ==
    /\ LifecycleSpec
    /\ WF_vars(ControllerStep)
    /\ WF_vars(CoordStep)
    /\ WF_vars(CoordExit)
    /\ WF_vars(WorkerExit)

\* A pool that is started once and given work, before and after start():
\* no resize and no stop, so max stays what the constructor was given, no
\* worker is ever surplus (line 299) and the sizing pass finds nothing to
\* start (line 213).
WorkNext ==
    \/ Start(1)
    \/ L298
    \/ L301
    \/ L302
    \/ L210
    \/ L212
    \/ WorkCallInThread
    \/ CoordStep
    \/ \E w \in Slots : WorkerRun(w)

WorkSpec == WorkInit /\ [][WorkNext]_vars

\* A pool that is started, given work and resized, and not stopped.
ResizeNext ==
    \/ Start(MaxResizeOps)
    \/ AdjustPoolsize(MaxResizeOps, MaxResizeThreads)
    \/ L298
    \/ L299
    \/ L301
    \/ L302
    \/ L210
    \/ L212
    \/ L178
    \/ ResizeCallInThread
    \/ CoordStep
    \/ \E w \in Slots : WorkerRun(w)
    \/ WorkerExit

ResizeSpec == ResizeInit /\ [][ResizeNext]_vars

\* ============================================================ properties
idleWorkerCount == statistics(Registry).idleWorkerCount
busyWorkerCount == statistics(Registry).busyWorkerCount

\* live workers as the pool counts them
LiveCount == idleWorkerCount + busyWorkerCount

\* worker threads that exist, counted or not
AliveThreads == Cardinality({w \in Slots : wk[w].st # "free"}) + exiting

Running == started
NotStarted == ~started /\ ~joined
\* stop() has been called and has returned
Joined == joined /\ pc # "l280"

LastOp == IF ops = <<>> THEN "none" ELSE ops[Len(ops)]
\* the controlling thread's last call was stop(), and it has returned
StopReturned == LastOp = "stop" /\ pc = "idle"
\* the controlling thread is in no call and the coordinator has nothing to handle
Settled == pc = "idle" /\ inbox = <<>>

TaskIds == 1..Len(tasks)

C2_NoWorkersUnlessRunning ==
    (NotStarted \/ Joined) => (idleWorkerCount = 0 /\ busyWorkerCount = 0)

C4_SubmitAfterStopIsNoOp ==
    /\ [][(joined /\ Len(tasks') > Len(tasks)) =>
            /\ UNCHANGED <<poolVars, callerVars, teamVars>>
            /\ \E h \in BOOLEAN : tasks' = Append(tasks, NewTask(h))]_vars
    /\ [](\A t \in TaskIds : tasks[t].posted = 0 =>
            (tasks[t].handed = 0 /\ tasks[t].ran = 0 /\ tasks[t].cb = <<>>))

\* a task was submitted after stop() and dropped
C4_Witness == joined /\ \E t \in TaskIds : tasks[t].posted = 0

\* ------------------------------------------------------------ C5
\* C5: a task with an onResult that a worker has run has had onResult
\* called exactly once, with (TRUE, v) if it returned v and with
\* (FALSE, failure) if it raised; no task's onResult is called twice, and
\* a task without onResult has no call.
ExpectedCall(t) ==
    IF tasks[t].outcome = "returned" THEN <<TRUE, t>> ELSE <<FALSE, Failure>>

C5_OnResultExactlyOnce ==
    \A t \in TaskIds :
        /\ Len(tasks[t].cb) <= 1
        /\ (tasks[t].onResult /\ tasks[t].ran >= 1) => tasks[t].cb = <<ExpectedCall(t)>>
        /\ (~tasks[t].onResult \/ tasks[t].ran = 0) => tasks[t].cb = <<>>

\* a task with an onResult raised, and onResult was told so
C5_Witness ==
    \E t \in TaskIds :
        /\ tasks[t].onResult
        /\ tasks[t].outcome = "raised"
        /\ tasks[t].cb = << <<FALSE, Failure>> >>

FirstStartReturned ==
    /\ pc = "idle"
    /\ LastOp = "start"
    /\ \A i \in 1..(Len(ops) - 1) : ops[i] = "adjust"

\* C7: after start() on a pool without submissions the live worker count
\* eventually equals min, and once it does it stays at min until another
\* operation is called.
C7_StartGrowsToMin ==
    /\ FirstStartReturned ~> (LiveCount = min \/ ~FirstStartReturned)
    /\ [][(FirstStartReturned /\ FirstStartReturned' /\ LiveCount = min)
            => LiveCount' = min']_vars

\* start() has returned and the pool has grown to a min of at least one
C7_Witness == FirstStartReturned /\ min >= 1 /\ LiveCount = min /\ inbox = <<>>

\* ------------------------------------------------------------ C8
\* C8: after start() called twice in a row, without submissions, the pool
\* is Running and its live worker count settles at min.
C8_SecondStartIsNoOp ==
    (ops = <<"start", "start">> /\ Settled /\ exiting = 0)
        => (started /\ LiveCount = min)

\* ------------------------------------------------------------ C9
\* the last two calls were stop(), and the second has returned
StoppedTwice ==
    /\ Len(ops) >= 2
    /\ ops[Len(ops)] = "stop"
    /\ ops[Len(ops) - 1] = "stop"
    /\ pc = "idle"

C10_RestartGrowsToMin ==
    (ops = <<"start", "stop", "start">> /\ Settled)
        => (started /\ err = "none" /\ LiveCount = min)

\* ------------------------------------------------------------ C11
\* adjustPoolsize(mi, ma) is called with a negative minimum or a minimum
\* above the maximum, an omitted argument standing for the current value
InvalidArgs(mi, ma) ==
    minthreadsOf(mi) < 0 \/ minthreadsOf(mi) > maxthreadsOf(ma)

\* this step is the call adjustPoolsize(mi, ma)
IsAdjustCall(mi, ma) ==
    /\ pc = "idle"
    /\ ops' = Append(ops, "adjust")
    /\ adjustPoolsizeEntry(mi, ma, started)

\* C11: adjustPoolsize with newMin < 0 or newMin > newMax raises to the
\* caller and changes nothing: min, max, the flags, the workers, the
\* backlog and the coordinator's inbox are as before the call, on a pool
\* that is started and on one that is not.
C11_InvalidResizeRejected ==
    [][\A mi \in MinArgs(MaxThreads), ma \in MaxArgs(MaxThreads) :
          (IsAdjustCall(mi, ma) /\ InvalidArgs(mi, ma)) =>
              /\ err' = "AssertionError"
              /\ pc' = "idle"
              /\ UNCHANGED <<poolVars, neededSize, tasks, teamVars>>]_vars

\* an invalid resize was refused on a started pool that has a worker
C11_Witness ==
    /\ LastOp = "adjust"
    /\ pc = "idle"
    /\ err = "AssertionError"
    /\ started
    /\ LiveCount >= 1

\* ------------------------------------------------------------ C12
\* C12: 0 <= min <= max in every state, after construction and after any
\* sequence of adjustPoolsize calls with given or omitted arguments.
C12_MinMaxOrdered == 0 <= min /\ min <= max

\* two resizes were called, the second was applied and left min = max > 0
C12_Witness ==
    /\ ops = <<"adjust", "adjust">>
    /\ err = "none"
    /\ min = max
    /\ min > 0

\* ------------------------------------------------------------ C13
\* the workers that run an item now
Executing == {w \in Slots : wk[w].st = "busy"}

\* task t is running on some worker
IsExecuting(t) == \E w \in Executing : wk[w].task = t

\* task t was submitted to a started pool and handed to the team
Accepted(t) == tasks[t].whenStarted /\ tasks[t].posted >= 1

\* C13: on a pool whose max is 1, at most one task is executing at any
\* time, and of two tasks submitted to the started pool the later one is
\* not handed to a worker before the earlier one has finished.
C13_SerialInOrder ==
    max = 1 =>
        /\ Cardinality(Executing) <= 1
        /\ \A i, j \in TaskIds :
              (i < j /\ Accepted(i) /\ Accepted(j) /\ tasks[j].handed >= 1)
                  => tasks[i].ran >= 1

\* with max = 1, two tasks were submitted after start(); the second waited
\* in the backlog while the first ran, and both have run
C13_Witness ==
    /\ max = 1
    /\ Len(tasks) >= 2
    /\ Accepted(1) /\ Accepted(2)
    /\ tasks[2].queued
    /\ tasks[1].ran = 1 /\ tasks[2].ran = 1

\* ------------------------------------------------------------ C14
\* all tasks were submitted after start() and there are at most max of them
AtMostMaxTasks ==
    /\ started
    /\ Len(tasks) <= max
    /\ \A t \in TaskIds : Accepted(t)

\* C14: when at most max tasks are submitted to a started pool, none of
\* them is put in the backlog, and once the coordinator has handled the
\* submissions and none has finished, all of them are executing at the same
\* time; the coordinator puts a task in the backlog only when there is no
\* idle worker and idle + busy >= max.
C14_ParallelUpToMax ==
    /\ [](AtMostMaxTasks =>
            /\ \A t \in TaskIds : ~tasks[t].queued
            /\ (inbox = <<>> /\ \A t \in TaskIds : tasks[t].ran = 0)
                  => \A t \in TaskIds : IsExecuting(t))
    /\ [][Len(pending') > Len(pending) =>
            (IdleSet(Registry) = {} /\ LiveCount >= max)]_vars

\* two tasks submitted after start() are executing at the same time
C14_Witness ==
    /\ AtMostMaxTasks
    /\ Len(tasks) >= 2
    /\ IsExecuting(1) /\ IsExecuting(2)

\* ------------------------------------------------------------ C15
\* C15: a resize of a started pool raises nothing from its sizing pass,
\* and once it has returned and the coordinator has handled its requests
\* the live worker count is at least min(max, backlog + busy): a backlog
\* left below a raised max has been given new workers.
C15_SizingPassGrows ==
    (LastOp = "adjust" /\ started /\ Settled) =>
        /\ err # "AttributeError"
        /\ err = "none" =>
              LiveCount >= Smaller(max, Len(pending) + busyWorkerCount)

\* ------------------------------------------------------------ C16
\* every task has terminated and every message has been handled
AllQuiet ==
    /\ Settled
    /\ BusySet(Registry) = {}
    /\ pending = <<>>
    /\ exiting = 0

\* every task so far was submitted after start()
SubmittedWhenStarted == \A t \in TaskIds : tasks[t].whenStarted

\* C16: a resize of a started pool that finds the live worker count above
\* the new max asks the team to stop exactly (count - max) workers, and
\* once the resize has returned, all tasks have terminated and the
\* coordinator has handled everything, the live count is at most max.
\* (Stated for the pools whose tasks were all submitted after start().)
C16_ShrinksToNewMax ==
    /\ [][(pc = "l299" /\ pc' = "l301" /\ LiveCount > max /\ SubmittedWhenStarted) =>
            inbox' = Append(inbox, Shrink(LiveCount - max))]_vars
    /\ []((started /\ LastOp = "adjust" /\ AllQuiet /\ SubmittedWhenStarted)
            => LiveCount <= max)

\* ------------------------------------------------------------ C17
\* worker w stops running its item in this step
LeavesBusy(w) == wk[w].st = "busy" /\ wk'[w].st # "busy"

\* task t is run to its end in this step, onResult included
Completes(t) ==
    /\ tasks'[t].ran = tasks[t].ran + 1
    /\ tasks[t].onResult => Len(tasks'[t].cb) = Len(tasks[t].cb) + 1

C18_CountIsSnapshot ==
    /\ pc = "l299" => workers > max
    /\ pc = "l302" => workers < min

\* ------------------------------------------------------------ C19
\* C19: the context captured for an accepted task is the current context
\* of its submitter; a task that has run ran under that context; and no
\* worker thread keeps a context installed after a task, whether the task
\* returned or raised.
C19_RunsUnderCapturedContext ==
    /\ \A t \in TaskIds :
          /\ tasks[t].posted >= 1 => tasks[t].ctx = tasks[t].at
          /\ tasks[t].ran >= 1 => tasks[t].seen = tasks[t].at
    /\ \A w \in Slots : wk[w].contexts = FreshContexts

\* on a pool with one worker, a task submitted inside a context raised,
\* and a task submitted outside of it ran after it
C19_Witness ==
    /\ max = 1
    /\ Len(tasks) >= 2
    /\ tasks[1].at = "request" /\ tasks[1].onResult /\ tasks[1].outcome = "raised"
    /\ tasks[2].at = DefaultContext /\ tasks[2].ran = 1
    /\ tasks[1].handed = 1 /\ tasks[2].queued

\* ------------------------------------------------------------ C20
\* the coordinator handles the completion report of a worker while the
\* backlog is not empty
RecyclesWithBacklog ==
    /\ coord = "running"
    /\ inbox # <<>>
    /\ Head(inbox).type = "WorkerIdle"
    /\ pending # <<>>
    /\ inbox' = Tail(inbox)

\* the t-th submission was accepted by the started pool and has not run
WaitsToRun(t) ==
    IF Len(tasks) >= t THEN Accepted(t) /\ tasks[t].ran = 0 ELSE FALSE

\* the t-th submission has run
HasRun(t) == IF Len(tasks) >= t THEN tasks[t].ran >= 1 ELSE FALSE

\* C20: between two messages of the coordinator a non-empty backlog means
\* that no worker is idle; a worker that reports completion while the
\* backlog is non-empty is handed the oldest backlogged task; and a task
\* accepted by a started pool is eventually run, unless stop() is called
\* or max is 0.
C20_WorkConservingAndLive ==
    /\ [](pending # <<>> => IdleSet(Registry) = {})
    /\ [][RecyclesWithBacklog =>
            /\ pending' = Tail(pending)
            /\ wk'[Head(inbox).arg].st = "busy"
            /\ wk'[Head(inbox).arg].task = Head(pending)]_vars
    /\ \A t \in 1..MaxTasks :
          (WaitsToRun(t) /\ started /\ max >= 1)
              ~> (HasRun(t) \/ joined \/ max = 0)

====
